---- MODULE Spec2Model ----
(***************************************************************************)
(* Session-backed OAuth2/OIDC authentication core of trade-demo-frontend:  *)
(* the yar-session authentication scheme (session-strategy.js), the auth   *)
(* controller (callback, logout), the token refresh client and the OIDC    *)
(* discovery cache, as a state machine over one browser session, one       *)
(* process and a few concurrent requests and client calls.                 *)
(***************************************************************************)
EXTENDS Integers, Sequences, FiniteSets, TLC

\* ------------------------------------------------------------------ bounds
MaxReq == 2        \* request slots that can be in flight at the same time
MaxTicks == 3      \* clock ticks of ClockStep milliseconds
MaxFlash == 2      \* pending-redirect messages kept in the model

\* --------------------------------------------------------------- constants
MsPerSecond == 1000      \* `expiresIn * 1000`, `expires_in * 1000`
MsPerMinute == 60000     \* date-fns subMinutes: one minute in milliseconds
BufferMinutes == 1       \* subMinutes(parseISO(expiresAt), 1)

ClockStep == MsPerSecond \div 2

Req == 1..MaxReq

\* JavaScript `undefined`, as the value of a scalar property that is not there
Undefined == "undefined"

\* The login-initiation endpoint the scheme redirects to
LoginPath == "/auth/login"

\* ------------------------------------------------------- JavaScript values
\* obj.key of an object that may lack the key
Get(obj, key) == IF key \in DOMAIN obj THEN obj[key] ELSE Undefined

\* !v for the scalar values of the model (undefined and the empty string)
Falsy(v) == v \in {Undefined, ""}

\* a || b on scalars
OrElse(a, b) == IF Falsy(a) THEN b ELSE a

\* claims.list || [] : a list that is there is truthy, also when empty
ListOrEmpty(obj, key) == IF key \in DOMAIN obj THEN obj[key] ELSE <<>>

\* ----------------------------------------------------------- date handling
\* (mutant) the milliseconds are dropped
ToISOStringSeconds(ms) == [sec |-> ms \div MsPerSecond, frac |-> 0]

\* new Date(ms).toISOString(): the timestamp to the second, and the three
\* digits of the millisecond fraction
ToISOString(ms) == [sec |-> ms \div MsPerSecond, frac |-> ms % MsPerSecond]

\* date-fns parseISO, back to epoch milliseconds
ParseISO(iso) == iso.sec * MsPerSecond + iso.frac

\* (mutant) the buffer taken in seconds
SubSeconds(ms, n) == ms - n * MsPerSecond

\* date-fns subMinutes(date, n)
SubMinutes(ms, n) == ms - n * MsPerMinute

\* (mutant) isFuture in the place of isPast
IsFuture(ms, t) == ms > t

\* date-fns isPast(date): date < Date.now()
IsPast(ms, t) == ms < t

\* tokenHasExpired of the scheme, evaluated at time t
TokenHasExpired(sessionData, t) ==
    IsPast(SubMinutes(ParseISO(sessionData.expiresAt), BufferMinutes), t)

\* ------------------------------------------------------------------ inputs
LogoutPath == "/auth/logout"

\* Tokens Bell hands to the callback as credentials.token
IdTokens == {"id-full", "id-bare", "id-empty-name", "id-no-contact", "id-garbage"}

\* jwt.token.decode(idToken).decoded.payload; <<>> stands for a decode that throws
DecodePayload(idToken) ==
    CASE idToken = "id-full" ->
           << [contactId |-> "contact-1", email |-> "ann@example.com",
               given_name |-> "Ann", relationships |-> <<"org-1:admin">>,
               roles |-> <<"user">>, aal |-> "aal2", loa |-> "2"] >>
      [] idToken = "id-bare" ->
           << [contactId |-> "contact-1", email |-> "ann@example.com"] >>
      [] idToken = "id-empty-name" ->
           << [contactId |-> "contact-1", email |-> "ann@example.com",
               given_name |-> "", relationships |-> <<>>, roles |-> <<>>,
               aal |-> "aal1", loa |-> "1"] >>
      [] idToken = "id-no-contact" ->
           << [email |-> "ann@example.com", given_name |-> "Ann"] >>
      [] OTHER -> <<>>

ExpiresInValues == {60, 61}

\* request.auth.credentials as Bell provides them: refreshToken and expiresIn
\* may be missing
Credentials ==
    { [token |-> t, refreshToken |-> "old-refresh", expiresIn |-> e] :
          t \in IdTokens, e \in ExpiresInValues }
    \cup { [token |-> t, expiresIn |-> e] : t \in {"id-full"}, e \in ExpiresInValues }
    \cup { [token |-> "id-full", refreshToken |-> "old-refresh"] }

\* The complete credentials of one identity, expiring at the buffer
CoreCredentials ==
    { [token |-> "id-full", refreshToken |-> "old-refresh", expiresIn |-> 60] }

\* Bodies the token endpoint can answer a refresh with (2xx)
TokenResponses ==
    { [access_token |-> "new-token", refresh_token |-> "new-refresh", expires_in |-> e] :
          e \in ExpiresInValues }
    \cup { [access_token |-> "new-token", expires_in |-> 61],
           [access_token |-> "new-token", refresh_token |-> "new-refresh"] }

\* The discovery document of the identity provider
DiscoveryDocument ==
    [ authorization_endpoint |-> "https://example.com/authorize",
      token_endpoint |-> "https://example.com/token",
      end_session_endpoint |-> "https://example.com/logout" ]

\* What the awaited fetch(discoveryUrl) can end in: a 2xx response with the
\* document, a non-2xx response, or a rejection of the fetch itself
DiscoveryResponses ==
    { [kind |-> "ok", body |-> DiscoveryDocument],
      [kind |-> "http", status |-> "404", statusText |-> "Not Found"],
      [kind |-> "http", status |-> "503", statusText |-> "Service Unavailable"],
      [kind |-> "throw", message |-> "Network error"] }

\* One document and one failure
CoreDiscoveryResponses ==
    { [kind |-> "ok", body |-> DiscoveryDocument],
      [kind |-> "throw", message |-> "Network error"] }

\* (mutant) the catch block drops the cause
DiscoveryErrorMessageBare(response) == <<"Failed to fetch OIDC configuration: ">>

\* The message of the error getOidcEndpoints throws, as the pieces of its
\* template strings: the error for a non-2xx response is thrown inside the
\* try block and wrapped by the catch block like any other
DiscoveryErrorMessage(response) ==
    <<"Failed to fetch OIDC configuration: ">>
        \o (IF response.kind = "http"
            THEN <<"OIDC discovery failed: ", response.status, " ", response.statusText>>
            ELSE <<response.message>>)

\* getOidcEndpoints from the return of its fetch on: the object response.json()
\* builds for this call (ref tells the objects of different calls apart), or
\* the error thrown
FetchedEndpoints(response, ref) ==
    IF response.kind = "ok"
    THEN [ok |-> TRUE,
          endpoints |-> [ref |-> ref,
                         authorization_endpoint |-> response.body.authorization_endpoint,
                         token_endpoint |-> response.body.token_endpoint,
                         end_session_endpoint |-> response.body.end_session_endpoint]]
    ELSE [ok |-> FALSE, error |-> DiscoveryErrorMessage(response)]

\* What the awaited POST to the token endpoint can end in
PostResponses ==
    { [kind |-> "ok", body |-> b] : b \in TokenResponses }
    \cup { [kind |-> "http", status |-> "400", statusText |-> "Bad Request",
            text |-> "invalid_grant"],
           [kind |-> "http", status |-> "500", statusText |-> "Internal Server Error",
            text |-> ""],
           [kind |-> "throw", message |-> "fetch failed"] }

\* One complete token response and one rejection by the token endpoint
CorePostResponses ==
    { [kind |-> "ok",
       body |-> [access_token |-> "new-token", refresh_token |-> "new-refresh",
                 expires_in |-> 61]],
      [kind |-> "http", status |-> "400", statusText |-> "Bad Request",
       text |-> "invalid_grant"] }

\* (mutant) the response body text is left out of the error
TokenRefreshErrorMessageNoText(response) ==
    <<"Token refresh failed: ", response.status, " ", response.statusText>>

\* The message of the error for a non-2xx response of the token endpoint
TokenRefreshErrorMessage(response) ==
    <<"Token refresh failed: ", response.status, " ", response.statusText, " - ",
      response.text>>

\* refreshAccessToken from the return of its POST on: the body, the error for
\* a non-2xx response, or the error of the transport as it is
RefreshOutcome(response) ==
    CASE response.kind = "ok" -> [ok |-> TRUE, body |-> response.body]
      [] response.kind = "http" ->
           [ok |-> FALSE, error |-> TokenRefreshErrorMessage(response)]
      [] OTHER -> [ok |-> FALSE, error |-> <<response.message>>]

\* The error of refreshAccessToken for a token that is not there
NoRefreshTokenError == [ok |-> FALSE, error |-> <<"No refresh token provided">>]

\* (mutant) only undefined counts as a missing token
NoRefreshTokenUndefinedOnly(refreshToken) == refreshToken = Undefined

\* if (!refreshToken) of refreshAccessToken
NoRefreshToken(refreshToken) == Falsy(refreshToken)

\* Refresh tokens refreshAccessToken is called with when called on its own
RefreshTokenArguments == {Undefined, "", "old-refresh"}

\* config.get('isProduction'), config.get('host'), config.get('port')
Configs ==
    { [isProduction |-> p, host |-> "localhost", port |-> n] :
          p \in BOOLEAN, n \in {80, 443, 3000} }

\* The configuration of a development server
CoreConfig == [isProduction |-> FALSE, host |-> "localhost", port |-> 3000]

\* config.get('defraId.oidcDiscoveryUrl'), ('defraId.clientId'),
\* ('defraId.clientSecret'), each set or left empty, and ('defraId.serviceId')
DefraIdConfigs ==
    { [oidcDiscoveryUrl |-> u, clientId |-> c, clientSecret |-> k, serviceId |-> v] :
          u \in {"", "https://example.com/.well-known/openid-configuration"},
          c \in {"", "client-1"}, k \in {"", "secret-1"},
          v \in {"service-1", "service-2"} }

\* The configuration of a server with authentication
CoreDefraId ==
    [ oidcDiscoveryUrl |-> "https://example.com/.well-known/openid-configuration",
      clientId |-> "client-1", clientSecret |-> "secret-1", serviceId |-> "service-1" ]

\* defraIdConfigured of createServer
DefraIdConfigured(defraId) ==
    ~Falsy(defraId.oidcDiscoveryUrl) /\ ~Falsy(defraId.clientId)
        /\ ~Falsy(defraId.clientSecret)

\* (mutant) the router registers the protected routes in every configuration
AuthConfiguredAlways(defraId) == TRUE

\* authConfigured of the router plugin
AuthConfigured(defraId) ==
    ~Falsy(defraId.oidcDiscoveryUrl) /\ ~Falsy(defraId.clientId)
        /\ ~Falsy(defraId.clientSecret)

\* server.auth.strategy(name, scheme), as an entry of the registration log
Strategy(name) == [kind |-> "strategy", name |-> name, strategy |-> "none", mode |-> "none"]

\* server.route({path, options: {auth: {strategy, mode}}}), as an entry of the log
Route(path, strategy, mode) ==
    [kind |-> "route", name |-> path, strategy |-> strategy, mode |-> mode]

\* (mutant) the logout route in mode required
AuthRoutesLogoutRequired ==
    << Route("/auth/login", "defra-id", "required"),
       Route("/auth/callback", "defra-id", "required"),
       Route("/auth/logout", "session-cookie", "required") >>

\* The routes of the auth plugin
AuthRoutes ==
    << Route("/auth/login", "defra-id", "required"),
       Route("/auth/callback", "defra-id", "required"),
       Route("/auth/logout", "session-cookie", "try") >>

\* The route of the dashboard plugin
DashboardRoutes == << Route("/dashboard", "session-cookie", "required") >>

\* router.plugin.register: health, the protected routes when authentication is
\* configured, then the routes of the application (one stands for them)
RouterRegisters(defraId) ==
    << Route("/health", "none", "none") >>
        \o (IF AuthConfigured(defraId) THEN AuthRoutes \o DashboardRoutes ELSE <<>>)
        \o << Route("/", "none", "none") >>

\* setupDefraIdStrategy after its await, then setupSessionStrategy
StrategiesRegister == << Strategy("defra-id"), Strategy("session-cookie") >>

\* The server object right after hapi.server(...) and the first plugins
NewServer(defraId) == [pc |-> "created", defraId |-> defraId, registered |-> <<>>]

\* (mutant) a failed strategy setup is skipped and the router is registered
CreateServerGoesOn(srv) ==
    [srv EXCEPT !.pc = "started", !.registered = RouterRegisters(srv.defraId)]

\* createServer rejects: the error of setupDefraIdStrategy leaves it
CreateServerRejects(srv) == [srv EXCEPT !.pc = "failed"]

\* createServer from the return of setupDefraIdStrategy to its end
CreateServerCompletes(srv) ==
    [srv EXCEPT !.pc = "started",
                !.registered = StrategiesRegister \o RouterRegisters(srv.defraId)]

\* createServer without authentication configured
CreateServerUnconfigured(srv) ==
    [srv EXCEPT !.pc = "started", !.registered = RouterRegisters(srv.defraId)]

\* The server of a process that started with authentication configured
StartedServer == CreateServerCompletes(NewServer(CoreDefraId))

\* The routes a server registered for a strategy, with their auth mode
RoutesOf(srv, strategy) ==
    { [path |-> srv.registered[i].name, mode |-> srv.registered[i].mode] :
          i \in { j \in 1..Len(srv.registered) :
                      /\ srv.registered[j].kind = "route"
                      /\ srv.registered[j].strategy = strategy } }

\* Routes that declare the session-cookie strategy, with their auth mode:
\* /dashboard and /auth/logout as the server registers them; /optional stands
\* for a route in the scheme's third mode, /account for a second route in
\* mode required.
Routes ==
    RoutesOf(StartedServer, "session-cookie")
        \cup { [path |-> "/optional", mode |-> "optional"],
               [path |-> "/account", mode |-> "required"] }

\* ----------------------------------------------------- login_hint and text
\* A text is a sequence of runs of one character: "aaa" is <<Run("a", 3)>>
Run(of, len) == [of |-> of, len |-> len]

Whitespace == {" ", "\t"}

\* The limit providerParams puts on the trimmed hint
MaxLoginHintLength == 255

RECURSIVE TextLength(_)
\* String.prototype.length
TextLength(text) ==
    IF text = <<>> THEN 0 ELSE text[1].len + TextLength(Tail(text))

RECURSIVE TrimStart(_)
TrimStart(text) ==
    IF text # <<>> /\ text[1].of \in Whitespace THEN TrimStart(Tail(text)) ELSE text

RECURSIVE TrimEnd(_)
TrimEnd(text) ==
    IF text # <<>> /\ text[Len(text)].of \in Whitespace
    THEN TrimEnd(SubSeq(text, 1, Len(text) - 1))
    ELSE text

\* String.prototype.trim
Trim(text) == TrimEnd(TrimStart(text))

DigitCharacters == <<"0", "1", "2", "3", "4", "5", "6", "7", "8", "9">>

RECURSIVE Digits(_)
\* String(n) of a non-negative integer
Digits(n) ==
    IF n < 10 THEN << Run(DigitCharacters[n + 1], 1) >>
    ELSE Digits(n \div 10) \o << Run(DigitCharacters[(n % 10) + 1], 1) >>

RECURSIVE Join(_)
\* Array.prototype.join of texts, which String(array) is
Join(items) ==
    IF items = <<>> THEN <<>>
    ELSE IF Len(items) = 1 THEN items[1]
    ELSE items[1] \o << Run(",", 1) >> \o Join(Tail(items))

\* A value of request.query: a string, or an array of strings for a repeated
\* parameter; the unit test also hands a number to providerParams
StringValue(text) == [kind |-> "string", text |-> text]
NumberValue(n) == [kind |-> "number", value |-> n]
ArrayValue(items) == [kind |-> "array", items |-> items]

\* String(value)
ToStringValue(value) ==
    CASE value.kind = "string" -> value.text
      [] value.kind = "number" -> Digits(value.value)
      [] value.kind = "array" -> Join(value.items)

\* The truthiness `if (request.query.login_hint)` tests
Truthy(value) ==
    CASE value.kind = "string" -> value.text # <<>>
      [] value.kind = "number" -> value.value # 0
      [] value.kind = "array" -> TRUE

UserHint == << Run("u", 4), Run("@", 1), Run("e", 11) >>

\* The values of login_hint the requests carry
LoginHints ==
    { StringValue(<<>>),
      StringValue(<< Run(" ", 3) >>),
      StringValue(<< Run("\t", 1), Run(" ", 1) >>),
      StringValue(<< Run("a", 1) >>),
      StringValue(UserHint),
      StringValue(<< Run(" ", 2) >> \o UserHint \o << Run(" ", 2) >>),
      StringValue(<< Run("a", MaxLoginHintLength) >>),
      StringValue(<< Run("a", MaxLoginHintLength + 1) >>),
      StringValue(<< Run(" ", 1), Run("a", MaxLoginHintLength), Run("\t", 1) >>),
      StringValue(<< Run(" ", 1), Run("a", MaxLoginHintLength + 1) >>),
      StringValue(<< Run("a", 100), Run(" ", 56), Run("b", 100) >>),
      NumberValue(12345), NumberValue(0),
      ArrayValue(<< UserHint, << Run("b", 1) >> >>) }

\* request.query of a login request: without login_hint, or with one
Queries ==
    { [k \in {} |-> Undefined] }
        \cup { [login_hint |-> value] : value \in LoginHints }

\* (mutant) the hint is forwarded as it came
ForwardedHintUntrimmed(value) == ToStringValue(value)

\* loginHint of providerParams
ForwardedHint(value) == Trim(ToStringValue(value))

\* (mutant) the service id is left out
ServiceParamsNone(serviceId) == [k \in {} |-> Undefined]

\* params of providerParams as it is created
ServiceParams(serviceId) == [serviceId |-> serviceId]

\* providerParams(request) of the defra-id strategy
ProviderParams(query, serviceId) ==
    LET params == ServiceParams(serviceId)
    IN  IF "login_hint" \in DOMAIN query /\ Truthy(query.login_hint)
        THEN LET loginHint == ForwardedHint(query.login_hint)
             IN  IF loginHint # <<>> /\ TextLength(loginHint) <= MaxLoginHintLength
                 THEN [k \in DOMAIN params \cup {"login_hint"} |->
                          IF k = "login_hint" THEN loginHint ELSE params[k]]
                 ELSE params
        ELSE params

\* ------------------------------------------------------------------- state
VARIABLES
    now,        \* Date.now(), milliseconds
    yarStore,   \* the session store of the browser session: a function on a subset of {"auth"}
    yarFlash,   \* the flash messages of type 'redirect'
    denied,     \* history: the paths denied since the latest successful callback, in
                \* the order of the denials
    req,        \* the requests and calls in flight, one record per slot
    cachedOidcEndpoints,   \* the module variable of oidc-discovery.js: <<>> for null
    config,     \* the configuration of the process
    live,       \* history: a callback succeeded and no logout or failed refresh cleared it since
    loggedOut,  \* history: a logout request has completed and no callback has succeeded since
    resolved,   \* history: the object the first successful getOidcEndpoints call returned
    discoveryFailed,   \* history: a fetch of the discovery document has failed, in a call
                       \* of one of the two clients made on its own
    server,     \* the hapi server: where createServer stands, and its registration log
    scenario    \* what a run explores: "identities" (every input, one request at a
                \* time), "interleavings" (one identity, overlapping requests on a
                \* started server), "callers" (overlapping calls of the two clients)
                \* or "startup" (createServer, then login requests)

vars == <<now, yarStore, yarFlash, denied, req, cachedOidcEndpoints, config, live, loggedOut,
          resolved, discoveryFailed, server, scenario>>

\* What a step of the session machine leaves alone beside the session
process == <<cachedOidcEndpoints, config, resolved, discoveryFailed, server, scenario>>

\* The object the call of setupDefraIdStrategy got when the server started
StartupEndpoints == FetchedEndpoints([kind |-> "ok", body |-> DiscoveryDocument], 0).endpoints

\* The inputs of a run: all of them when requests come one at a time, one
\* identity on the repository's two routes when requests overlap
ScenarioRoutes ==
    CASE scenario = "identities" -> Routes
      [] scenario = "interleavings" -> RoutesOf(StartedServer, "session-cookie")
      [] OTHER -> {}

ScenarioCredentials ==
    CASE scenario = "identities" -> Credentials
      [] scenario = "interleavings" -> CoreCredentials
      [] OTHER -> {}

ScenarioDiscoveryResponses ==
    IF scenario = "identities" THEN DiscoveryResponses ELSE CoreDiscoveryResponses

ScenarioPostResponses ==
    IF scenario = "interleavings" THEN CorePostResponses ELSE PostResponses

\* ------------------------------------------------------- the session store
EmptyStore == [k \in {} |-> Undefined]

\* yar.get(key): the value, or <<>> for null
YarGet(store, key) == IF key \in DOMAIN store THEN <<store[key]>> ELSE <<>>

\* yar.set(key, value)
YarSet(store, key, value) ==
    [k \in DOMAIN store \cup {key} |-> IF k = key THEN value ELSE store[k]]

\* yar.clear(key)
YarClear(store, key) == [k \in DOMAIN store \ {key} |-> store[k]]

\* (mutant) the newest message comes first
YarFlashAddInFront(messages, message) == <<message>> \o messages

\* yar.flash(type, message): the message is appended to the list of its type
YarFlashAdd(messages, message) == Append(messages, message)

\* setSessionValue / clearSessionValue of session-helpers.js
SetSessionValue(store, key, value) == YarSet(store, key, value)
ClearSessionValue(store, key) == YarClear(store, key)

\* --------------------------------------------------------------- requests
IdleReq ==
    [ pc |-> "idle", op |-> "none", mode |-> "none", path |-> "",
      seen |-> <<>>, calls |-> <<>>, awaits |-> "none", net |-> <<>>, got |-> <<>>,
      result |-> <<>>,
      outcome |-> "none", response |-> "none", location |-> "",
      credentials |-> <<>>, ops |-> <<>>, handler |-> FALSE,
      query |-> <<>>, params |-> <<>>, afterFailure |-> FALSE ]

\* A finished request is answered, and an authenticated request enters the
\* handler of its route, before the server takes another step: neither step
\* awaits anything
NoneDone ==
    \A q \in Req : req[q].pc \notin {"done", "authed"}

\* (mutant) no request is taken up while another one awaits a fetch
FreeSlotNoneSuspended(r) ==
    /\ \A q \in Req : req[q].pc \in {"idle"}
    /\ r = 1

\* A new request takes the first free slot
FreeSlot(r) ==
    /\ NoneDone
    /\ scenario = "identities" => r = 1
    /\ req[r].pc = "idle"
    /\ \A q \in Req : q < r => req[q].pc # "idle"

Init ==
    /\ now = 0
    /\ yarStore = EmptyStore
    /\ yarFlash = <<>>
    /\ denied = <<>>
    /\ req = [r \in Req |-> IdleReq]
    /\ live = FALSE
    /\ loggedOut = FALSE
    /\ scenario \in {"identities", "interleavings", "callers", "startup"}
    /\ server \in (IF scenario = "startup"
                    THEN {NewServer(defraId) : defraId \in DefraIdConfigs}
                    ELSE {StartedServer})
    /\ config \in (IF scenario = "identities" THEN Configs ELSE {CoreConfig})
    /\ cachedOidcEndpoints =
           (IF scenario = "interleavings" THEN <<StartupEndpoints>> ELSE <<>>)
    /\ resolved = cachedOidcEndpoints
    /\ discoveryFailed = FALSE

\* Date.now() advances; the two clients, createServer and the login do not
\* read the clock
Tick ==
    /\ NoneDone
    /\ scenario \in {"identities", "interleavings"}
    /\ now + ClockStep <= MaxTicks * ClockStep
    /\ now' = now + ClockStep
    /\ UNCHANGED <<yarStore, yarFlash, denied, req, live, loggedOut, process>>

\* Required-mode evaluations in flight that may still write a flash message
PendingFlashes ==
    Cardinality({q \in Req : req[q].pc = "refresh" /\ req[q].mode = "required"})

\* (mutant) only 'try' lets a request through, 'optional' is forgotten
NoSessionOutcomeTryOnly(r0, ops0) ==
    IF r0.mode = "try"
    THEN [r0 EXCEPT !.pc = "authed", !.outcome = "authenticated",
                    !.credentials = <<>>, !.ops = ops0]
    ELSE [r0 EXCEPT !.pc = "done", !.outcome = "redirect", !.response = "redirect",
                    !.location = LoginPath,
                    !.ops = Append(ops0, <<"flash", r0.path>>)]

\* The shared tail of the scheme: the outcome for a request without a usable
\* session (session-strategy.js 277-284 and 314-321)
NoSessionOutcome(r0, ops0) ==
    IF r0.mode = "try" \/ r0.mode = "optional"
    THEN [r0 EXCEPT !.pc = "authed", !.outcome = "authenticated",
                    !.credentials = <<>>, !.ops = ops0]
    ELSE [r0 EXCEPT !.pc = "done", !.outcome = "redirect", !.response = "redirect",
                    !.location = LoginPath,
                    !.ops = Append(ops0, <<"flash", r0.path>>)]

\* (mutant) the path is saved before the mode is looked at, but for 'try'
ProceedsWithoutFlashTryOnly(mode) == mode = "try"

\* The modes in which the scheme returns before request.yar.flash is reached
ProceedsWithoutFlash(mode) == mode = "try" \/ mode = "optional"

\* The denied paths after the scheme has decided on a request without a
\* usable session
Denied(r0, paths) ==
    IF ProceedsWithoutFlash(r0.mode) THEN paths ELSE Append(paths, r0.path)

\* (mutant) the request path is not saved before the redirect
NoSessionFlashSkipped(r0, messages) == messages

NoSessionFlash(r0, messages) ==
    IF ProceedsWithoutFlash(r0.mode)
    THEN messages
    ELSE YarFlashAdd(messages, r0.path)

\* (mutant) a refresh in flight is not repeated by another request
NeedsRefreshUnlessInFlight(sessionData, t) ==
    /\ TokenHasExpired(sessionData, t) /\ ~Falsy(sessionData.refreshToken)
    /\ \A q \in Req : req[q].pc # "refresh"

\* Whether the scheme goes to the refresh branch
NeedsRefresh(sessionData, t) ==
    TokenHasExpired(sessionData, t) /\ ~Falsy(sessionData.refreshToken)

\* (mutant) the cached object is never used
CacheNeverHit(cache) == FALSE

\* getOidcEndpoints() up to its awaited fetch: with a cached object there is
\* no fetch, and the caller goes on at once
CacheHit(cache) == cache # <<>>

\* refreshAccessToken(refreshToken) up to its first awaited fetch: the one of
\* getOidcEndpoints when the cache is empty, its own POST otherwise
RefreshAccessTokenStarts(r0, refreshToken, cache) ==
    IF NoRefreshToken(refreshToken)
    THEN [r0 EXCEPT !.pc = "done", !.calls = <<refreshToken>>, !.response = "error",
                    !.result = <<NoRefreshTokenError>>]
    ELSE IF CacheHit(cache)
    THEN [r0 EXCEPT !.pc = "refresh", !.calls = <<refreshToken>>,
                    !.awaits = "post", !.net = <<"token">>]
    ELSE [r0 EXCEPT !.pc = "refresh", !.calls = <<refreshToken>>,
                    !.awaits = "discovery", !.net = <<"discovery">>]

\* scheme.authenticate up to its first await (or to its end); the refresh
\* token it calls refreshAccessToken with is never a missing one
Authenticate(r, route) ==
    /\ FreeSlot(r)
    /\ route \in ScenarioRoutes
    /\ route.mode = "required" => Len(yarFlash) + PendingFlashes < MaxFlash
    /\ LET sessionData == YarGet(yarStore, "auth")
           r0 == [IdleReq EXCEPT !.op = "authenticate", !.mode = route.mode,
                                 !.path = route.path, !.seen = sessionData]
       IN  IF sessionData = <<>>
           THEN /\ req' = [req EXCEPT ![r] = NoSessionOutcome(r0, <<>>)]
                /\ yarFlash' = NoSessionFlash(r0, yarFlash)
                /\ denied' = Denied(r0, denied)
           ELSE IF NeedsRefresh(sessionData[1], now)
           THEN /\ req' = [req EXCEPT ![r] =
                              RefreshAccessTokenStarts(r0, sessionData[1].refreshToken,
                                                       cachedOidcEndpoints)]
                /\ UNCHANGED <<yarFlash, denied>>
           ELSE /\ req' = [req EXCEPT ![r] =
                              [r0 EXCEPT !.pc = "authed", !.outcome = "authenticated",
                                         !.credentials = sessionData[1]]]
                /\ UNCHANGED <<yarFlash, denied>>
    /\ UNCHANGED <<now, yarStore, live, loggedOut, process>>

\* (mutant) the rotated refresh token is dropped, the old one is kept
UpdatedSessionKeepsRefreshToken(sessionData, newTokens, t) ==
    [sessionData EXCEPT
        !.accessToken = Get(newTokens, "access_token"),
        !.expiresAt = ToISOString(t + newTokens.expires_in * MsPerSecond)]

\* updatedSession of the scheme
UpdatedSession(sessionData, newTokens, t) ==
    [sessionData EXCEPT
        !.accessToken = Get(newTokens, "access_token"),
        !.refreshToken = Get(newTokens, "refresh_token"),
        !.expiresAt = ToISOString(t + newTokens.expires_in * MsPerSecond)]

\* new Date(NaN).toISOString() throws a RangeError
ExpiryComputable(obj, key) == key \in DOMAIN obj

\* (mutant) the catch block leaves the session record in place
RefreshFailureStoreKept(store) == store

\* the catch block of the scheme: request.yar.clear('auth')
RefreshFailureStore(store) == YarClear(store, "auth")

\* (mutant) the scheme calls refreshAccessToken again, whatever the call gave
SchemeAfterRefreshCallsAgain(r, r1, result) ==
    /\ req' = [req EXCEPT ![r] = [r1 EXCEPT !.result = <<result>>]]
    /\ UNCHANGED <<yarStore, yarFlash, denied, live>>

\* The scheme from the return of its awaited refreshAccessToken call to its
\* end: the try block with the token response, the catch block with the error
SchemeAfterRefresh(r, r1, result) ==
    LET r0 == [r1 EXCEPT !.result = <<result>>, !.awaits = "none"]
        sessionData == req[r].seen[1]
    IN  IF result.ok /\ ExpiryComputable(result.body, "expires_in")
        THEN LET updatedSession == UpdatedSession(sessionData, result.body, now)
             IN  /\ yarStore' = YarSet(yarStore, "auth", updatedSession)
                 /\ req' = [req EXCEPT ![r] =
                               [r0 EXCEPT !.pc = "authed",
                                          !.outcome = "authenticated",
                                          !.credentials = updatedSession,
                                          !.ops = <<<<"set", updatedSession>>>>]]
                 /\ UNCHANGED <<yarFlash, denied, live>>
        ELSE /\ yarStore' = RefreshFailureStore(yarStore)
             /\ req' = [req EXCEPT ![r] = NoSessionOutcome(r0, <<<<"clear">>>>)]
             /\ yarFlash' = NoSessionFlash(r0, yarFlash)
             /\ denied' = Denied(r0, denied)
             /\ live' = FALSE

\* A call of refreshAccessToken on its own ends: it returns or throws
ClientCallEnds(r, r1, result) ==
    /\ req' = [req EXCEPT ![r] =
                  [r1 EXCEPT !.pc = "done", !.awaits = "none", !.result = <<result>>,
                             !.response = IF result.ok THEN "ok" ELSE "error"]]
    /\ UNCHANGED <<yarStore, yarFlash, denied, live>>

\* (mutant) what the call ends in is cached, an error too
CachedWhateverFetched(cache, fetched) == <<fetched>>

\* cachedOidcEndpoints after getOidcEndpoints: assigned when the fetch gave
\* the document, left alone when the function throws
Cached(cache, fetched) == IF fetched.ok THEN <<fetched.endpoints>> ELSE cache

\* The first object a getOidcEndpoints call returned
Resolved(endpoints) == IF resolved = <<>> THEN <<endpoints>> ELSE resolved

\* The fetch of the discovery document awaited inside refreshAccessToken
\* returns: getOidcEndpoints caches the object and refreshAccessToken issues
\* its POST, or getOidcEndpoints throws and so does refreshAccessToken
RefreshDiscoveryReturns(r, response) ==
    /\ NoneDone
    /\ req[r].pc = "refresh" /\ req[r].awaits = "discovery"
    /\ response \in ScenarioDiscoveryResponses
    /\ LET fetched == FetchedEndpoints(response, r)
       IN  IF fetched.ok
           THEN /\ cachedOidcEndpoints' = Cached(cachedOidcEndpoints, fetched)
                /\ resolved' = Resolved(fetched.endpoints)
                /\ req' = [req EXCEPT ![r] =
                              [@ EXCEPT !.awaits = "post", !.net = Append(@, "token"),
                                        !.got = <<response>>]]
                /\ UNCHANGED <<yarStore, yarFlash, denied, live>>
           ELSE /\ IF req[r].op = "authenticate"
                   THEN SchemeAfterRefresh(r, [req[r] EXCEPT !.got = <<response>>], fetched)
                   ELSE ClientCallEnds(r, [req[r] EXCEPT !.got = <<response>>], fetched)
                /\ cachedOidcEndpoints' = Cached(cachedOidcEndpoints, fetched)
                /\ UNCHANGED resolved
    /\ discoveryFailed' = (discoveryFailed \/ (/\ req[r].op = "refreshAccessToken"
                                               /\ ~FetchedEndpoints(response, r).ok))
    /\ UNCHANGED <<now, loggedOut, config, server, scenario>>

\* The POST awaited inside refreshAccessToken returns or throws, and the
\* caller goes on: the scheme runs to its end
RefreshReturns(r, response) ==
    /\ NoneDone
    /\ req[r].pc = "refresh" /\ req[r].awaits = "post"
    /\ response \in ScenarioPostResponses
    /\ LET r1 == [req[r] EXCEPT !.got = <<response>>]
       IN  IF req[r].op = "authenticate"
           THEN SchemeAfterRefresh(r, r1, RefreshOutcome(response))
           ELSE ClientCallEnds(r, r1, RefreshOutcome(response))
    /\ UNCHANGED <<now, loggedOut, process>>

\* (mutant) the display name is always the email
CallbackSessionDataEmailOnly(claims, credentials, t) ==
    [ contactId |-> Get(claims, "contactId"),
      email |-> Get(claims, "email"),
      displayName |-> Get(claims, "email"),
      accessToken |-> credentials.token,
      refreshToken |-> Get(credentials, "refreshToken"),
      expiresAt |-> ToISOString(t + credentials.expiresIn * MsPerSecond),
      relationships |-> ListOrEmpty(claims, "relationships"),
      roles |-> ListOrEmpty(claims, "roles"),
      aal |-> Get(claims, "aal"),
      loa |-> Get(claims, "loa") ]

\* sessionData of the callback handler
CallbackSessionData(claims, credentials, t) ==
    [ contactId |-> Get(claims, "contactId"),
      email |-> Get(claims, "email"),
      displayName |-> OrElse(Get(claims, "given_name"), Get(claims, "email")),
      accessToken |-> credentials.token,
      refreshToken |-> Get(credentials, "refreshToken"),
      expiresAt |-> ToISOString(t + credentials.expiresIn * MsPerSecond),
      relationships |-> ListOrEmpty(claims, "relationships"),
      roles |-> ListOrEmpty(claims, "roles"),
      aal |-> Get(claims, "aal"),
      loa |-> Get(claims, "loa") ]

\* (mutant) the pending redirect is ignored
RedirectTargetHome(messages) == "/"

\* request.yar.flash('redirect')?.at(0) ?? '/'
RedirectTarget(messages) == IF messages = <<>> THEN "/" ELSE messages[1]

\* (mutant) the pending redirect is read, and so removed, before the token is decoded
ThrownCallbackFlashRead(messages) == <<>>

\* The flash messages a callback leaves that throws before
\* request.yar.flash('redirect') is reached
ThrownCallbackFlash(messages) == messages

\* GET /auth/callback: Bell has exchanged the code and hands over the
\* credentials; the handler has no await and runs in one step
Callback(r, credentials) ==
    /\ FreeSlot(r)
    /\ credentials \in ScenarioCredentials
    /\ LET r0 == [IdleReq EXCEPT !.op = "callback", !.mode = "required",
                                 !.path = "/auth/callback",
                                 !.outcome = "authenticated",
                                 !.credentials = credentials, !.handler = TRUE]
           decoded == DecodePayload(credentials.token)
       IN  IF decoded = <<>> \/ ~ExpiryComputable(credentials, "expiresIn")
           THEN /\ req' = [req EXCEPT ![r] =
                              [r0 EXCEPT !.pc = "done", !.response = "error"]]
                /\ yarFlash' = ThrownCallbackFlash(yarFlash)
                /\ UNCHANGED denied
                /\ UNCHANGED <<yarStore, live, loggedOut>>
           ELSE LET sessionData == CallbackSessionData(decoded[1], credentials, now)
                IN  /\ yarStore' = SetSessionValue(yarStore, "auth", sessionData)
                    /\ yarFlash' = <<>>
                    /\ denied' = <<>>
                    /\ live' = TRUE
                    /\ loggedOut' = FALSE
                    /\ req' = [req EXCEPT ![r] =
                                  [r0 EXCEPT !.pc = "done", !.response = "redirect",
                                             !.location = RedirectTarget(yarFlash),
                                             !.ops = << <<"set", sessionData>>,
                                                        <<"flash", yarFlash>> >>]]
    /\ UNCHANGED <<now, process>>

\* The handler of a protected route other than logout runs after the scheme
\* has authenticated the request
RouteHandler(r) ==
    /\ req[r].pc = "authed"
    /\ req[r].path # LogoutPath
    /\ req' = [req EXCEPT ![r] = [@ EXCEPT !.pc = "done", !.response = "ok",
                                           !.handler = TRUE]]
    /\ UNCHANGED <<now, yarStore, yarFlash, denied, live, loggedOut, process>>

\* postLogoutUri of the logout handler, as the pieces of its template string
PostLogoutUri(cfg) ==
    LET protocol == IF cfg.isProduction THEN "https" ELSE "http"
    IN  IF cfg.port = 80 \/ cfg.port = 443
        THEN <<protocol, "://", cfg.host>>
        ELSE <<protocol, "://", cfg.host, ":", ToString(cfg.port)>>

\* (mutant) the URI is put into the query as it is
NotEncoded(pieces) == pieces

\* encodeURIComponent: letters, digits and dots stay, the reserved characters
\* of the URI are percent-encoded
EncodeURIComponent(pieces) ==
    [i \in 1..Len(pieces) |->
        CASE pieces[i] = "://" -> "%3A%2F%2F"
          [] pieces[i] = ":" -> "%3A"
          [] pieces[i] = "/" -> "%2F"
          [] OTHER -> pieces[i]]

\* logoutUrl of the logout handler
LogoutUrl(oidcEndpoints, cfg) ==
    <<oidcEndpoints.end_session_endpoint, "?post_logout_redirect_uri=">>
        \o EncodeURIComponent(PostLogoutUri(cfg))

\* The logout handler from the return of getOidcEndpoints to its end
LogoutRedirects(r0, oidcEndpoints) ==
    [r0 EXCEPT !.pc = "done", !.awaits = "none", !.response = "redirect",
               !.location = LogoutUrl(oidcEndpoints, config)]

\* (mutant) the record is cleared once the endpoints are there
LogoutClearsWithEndpoints(store) ==
    IF CacheHit(cachedOidcEndpoints) THEN ClearSessionValue(store, "auth") ELSE store

\* The first statement of the logout handler: clearSessionValue(request, 'auth')
LogoutClears(store) == ClearSessionValue(store, "auth")

\* GET /auth/logout: the handler clears the record and asks for the endpoints;
\* with the cache filled it runs to its end, otherwise to the awaited fetch
Logout(r) ==
    /\ req[r].pc = "authed"
    /\ req[r].path = LogoutPath
    /\ yarStore' = LogoutClears(yarStore)
    /\ live' = FALSE
    /\ LET r0 == [req[r] EXCEPT !.handler = TRUE, !.ops = Append(@, <<"clear">>)]
       IN  IF CacheHit(cachedOidcEndpoints)
           THEN /\ req' = [req EXCEPT ![r] = LogoutRedirects(r0, cachedOidcEndpoints[1])]
                /\ loggedOut' = TRUE
           ELSE /\ req' = [req EXCEPT ![r] =
                              [r0 EXCEPT !.pc = "endpoints", !.awaits = "discovery",
                                         !.net = Append(@, "discovery")]]
                /\ UNCHANGED loggedOut
    /\ UNCHANGED <<now, yarFlash, denied, process>>

\* The fetch awaited by getOidcEndpoints inside the logout handler returns:
\* the object is cached and the handler redirects, or the error goes out of
\* the handler
LogoutEndpoints(r, response) ==
    /\ NoneDone
    /\ req[r].pc = "endpoints" /\ req[r].op = "authenticate"
    /\ response \in ScenarioDiscoveryResponses
    /\ LET fetched == FetchedEndpoints(response, r)
           r0 == [req[r] EXCEPT !.result = <<fetched>>, !.got = <<response>>]
       IN  IF fetched.ok
           THEN /\ cachedOidcEndpoints' = Cached(cachedOidcEndpoints, fetched)
                /\ resolved' = Resolved(fetched.endpoints)
                /\ req' = [req EXCEPT ![r] = LogoutRedirects(r0, fetched.endpoints)]
           ELSE /\ req' = [req EXCEPT ![r] =
                              [r0 EXCEPT !.pc = "done", !.awaits = "none",
                                         !.response = "error"]]
                /\ cachedOidcEndpoints' = Cached(cachedOidcEndpoints, fetched)
                /\ UNCHANGED resolved
    /\ loggedOut' = TRUE
    /\ UNCHANGED <<now, yarStore, yarFlash, denied, live, config, discoveryFailed, server,
                   scenario>>

\* getOidcEndpoints() called on its own
CallGetOidcEndpoints(r) ==
    /\ FreeSlot(r)
    /\ scenario = "callers"
    /\ LET r0 == [IdleReq EXCEPT !.op = "getOidcEndpoints", !.seen = cachedOidcEndpoints,
                                 !.afterFailure = discoveryFailed]
       IN  IF CacheHit(cachedOidcEndpoints)
           THEN req' = [req EXCEPT ![r] =
                           [r0 EXCEPT !.pc = "done", !.response = "ok",
                                      !.result = <<[ok |-> TRUE,
                                                    endpoints |-> cachedOidcEndpoints[1]]>>]]
           ELSE req' = [req EXCEPT ![r] =
                           [r0 EXCEPT !.pc = "endpoints", !.awaits = "discovery",
                                      !.net = <<"discovery">>]]
    /\ UNCHANGED <<now, yarStore, yarFlash, denied, live, loggedOut, process>>

\* The fetch awaited by a getOidcEndpoints call made on its own returns
GetOidcEndpointsReturns(r, response) ==
    /\ NoneDone
    /\ req[r].pc = "endpoints" /\ req[r].op = "getOidcEndpoints"
    /\ response \in DiscoveryResponses
    /\ LET fetched == FetchedEndpoints(response, r)
       IN  /\ req' = [req EXCEPT ![r] =
                         [@ EXCEPT !.pc = "done", !.awaits = "none",
                                   !.got = <<response>>, !.result = <<fetched>>,
                                   !.response = IF fetched.ok THEN "ok" ELSE "error"]]
           /\ cachedOidcEndpoints' = Cached(cachedOidcEndpoints, fetched)
           /\ resolved' = IF fetched.ok THEN Resolved(fetched.endpoints) ELSE resolved
    /\ discoveryFailed' = (discoveryFailed \/ ~FetchedEndpoints(response, r).ok)
    /\ UNCHANGED <<now, yarStore, yarFlash, denied, live, loggedOut, config, server, scenario>>

\* refreshAccessToken(refreshToken) called on its own
CallRefreshAccessToken(r, refreshToken) ==
    /\ FreeSlot(r)
    /\ scenario = "callers"
    /\ req' = [req EXCEPT ![r] =
                  RefreshAccessTokenStarts(
                      [IdleReq EXCEPT !.op = "refreshAccessToken",
                                      !.seen = cachedOidcEndpoints],
                      refreshToken, cachedOidcEndpoints)]
    /\ UNCHANGED <<now, yarStore, yarFlash, denied, live, loggedOut, process>>

\* createServer up to the await of setupDefraIdStrategy, or to its end when
\* authentication is not configured
CreateServer ==
    /\ scenario = "startup"
    /\ server.pc = "created"
    /\ server' = IF DefraIdConfigured(server.defraId)
                 THEN [server EXCEPT !.pc = "setup"]
                 ELSE CreateServerUnconfigured(server)
    /\ UNCHANGED <<now, yarStore, yarFlash, denied, req, live, loggedOut,
                   cachedOidcEndpoints, config, resolved, discoveryFailed, scenario>>

\* The fetch awaited by getOidcEndpoints inside setupDefraIdStrategy returns:
\* both strategies and then the routes are registered, or createServer rejects
SetupReturns(response) ==
    /\ server.pc = "setup"
    /\ response \in DiscoveryResponses
    /\ LET fetched == FetchedEndpoints(response, 0)
       IN  IF fetched.ok
           THEN /\ cachedOidcEndpoints' = Cached(cachedOidcEndpoints, fetched)
                /\ resolved' = Resolved(fetched.endpoints)
                /\ server' = CreateServerCompletes(server)
           ELSE /\ server' = CreateServerRejects(server)
                /\ cachedOidcEndpoints' = Cached(cachedOidcEndpoints, fetched)
                /\ UNCHANGED resolved
    /\ UNCHANGED <<now, yarStore, yarFlash, denied, req, live, loggedOut, config,
                   discoveryFailed, scenario>>

\* GET /auth/login: Bell redirects to the authorization endpoint it was given
\* at setup, with the parameters of providerParams
Login(r, query) ==
    /\ FreeSlot(r)
    /\ scenario = "startup"
    /\ server.pc = "started"
    /\ \E route \in RoutesOf(server, "defra-id") : route.path = LoginPath
    /\ req' = [req EXCEPT ![r] =
                  [IdleReq EXCEPT !.op = "login", !.path = LoginPath,
                                  !.mode = "required", !.pc = "done",
                                  !.query = <<query>>,
                                  !.params = <<ProviderParams(
                                                   query, server.defraId.serviceId)>>,
                                  !.response = "redirect",
                                  !.location =
                                      cachedOidcEndpoints[1].authorization_endpoint]]
    /\ UNCHANGED <<now, yarStore, yarFlash, denied, live, loggedOut, process>>

\* The response has been sent, or the call has ended; the slot serves the next
Respond(r) ==
    /\ req[r].pc = "done"
    /\ req' = [req EXCEPT ![r] = IdleReq]
    /\ UNCHANGED <<now, yarStore, yarFlash, denied, live, loggedOut, process>>

Next ==
    \/ Tick
    \/ \E r \in Req, route \in Routes : Authenticate(r, route)
    \/ \E r \in Req, response \in DiscoveryResponses : RefreshDiscoveryReturns(r, response)
    \/ \E r \in Req, response \in PostResponses : RefreshReturns(r, response)
    \/ \E r \in Req, credentials \in Credentials : Callback(r, credentials)
    \/ \E r \in Req : RouteHandler(r)
    \/ \E r \in Req : Logout(r)
    \/ \E r \in Req, response \in DiscoveryResponses : LogoutEndpoints(r, response)
    \/ \E r \in Req : CallGetOidcEndpoints(r)
    \/ \E r \in Req, response \in DiscoveryResponses : GetOidcEndpointsReturns(r, response)
    \/ \E r \in Req, refreshToken \in RefreshTokenArguments :
           CallRefreshAccessToken(r, refreshToken)
    \/ CreateServer
    \/ \E response \in DiscoveryResponses : SetupReturns(response)
    \/ \E r \in Req, query \in Queries : Login(r, query)
    \/ \E r \in Req : Respond(r)

Spec == Init /\ [][Next]_vars

\* The steps of slot r that await nothing: the handler runs, the response is sent
Proceeds(r) == RouteHandler(r) \/ Logout(r) \/ Respond(r)

\* A fetch awaited in slot r returns or throws
Returns(r) ==
    \/ \E response \in DiscoveryResponses : RefreshDiscoveryReturns(r, response)
    \/ \E response \in PostResponses : RefreshReturns(r, response)
    \/ \E response \in DiscoveryResponses : LogoutEndpoints(r, response)
    \/ \E response \in DiscoveryResponses : GetOidcEndpointsReturns(r, response)

\* A request or a call arrives and is taken up in slot r
Arrives(r) ==
    \/ \E route \in Routes : Authenticate(r, route)
    \/ CallGetOidcEndpoints(r)
    \/ \E refreshToken \in RefreshTokenArguments : CallRefreshAccessToken(r, refreshToken)

\* The server whose fetches all return or fail: what awaits nothing is run by
\* the event loop, and the continuation of every fetch that has returned is run
FairSpec ==
    /\ Init /\ [][Next]_vars
    /\ \A r \in Req : WF_vars(Proceeds(r)) /\ SF_vars(Returns(r))

\* The slot whose fetches may never return
HungSlot == 1

\* The server with one hung fetch: what awaits nothing is run by the event
\* loop, in every slot; in the slots other than the hung one requests keep
\* arriving and every fetch returns, and its continuation is run. Nothing is
\* assumed of the fetches of the hung slot.
HungSpec ==
    /\ Init /\ [][Next]_vars
    /\ \A r \in Req : WF_vars(Proceeds(r))
    /\ \A r \in Req \ {HungSlot} : SF_vars(Returns(r)) /\ SF_vars(Arrives(r))

\* ================================================================== claims
\* A strategy evaluation starts in this step, in slot r
Starts(r) == req[r].pc = "idle" /\ req'[r].op = "authenticate"

\* The awaited refresh call of slot r ends in this step
RefreshEnds(r) ==
    req[r].op = "authenticate" /\ req[r].pc = "refresh" /\ req'[r].pc # "refresh"

\* The messages of a flash list, as a set
Messages(messages) == {messages[i] : i \in 1..Len(messages)}

\* What NoSession gives in mode `required`: the path joins the pending-redirect
\* messages, the response is the redirect to /auth/login, the handler is not
\* reached and there are no credentials
DeniedToLogin(r) ==
    /\ Len(yarFlash') = Len(yarFlash) + 1
    /\ req'[r].path \in Messages(yarFlash')
    /\ req'[r].pc = "done"
    /\ req'[r].outcome = "redirect"
    /\ req'[r].response = "redirect"
    /\ req'[r].location = "/auth/login"
    /\ req'[r].credentials = <<>>
    /\ ~req'[r].handler

\* What NoSession gives in mode `try` or `optional`: the request goes on to
\* its handler with empty credentials, and nothing is redirected or recorded
ProceedsAnonymous(r) ==
    /\ req'[r].pc = "authed"
    /\ req'[r].outcome = "authenticated"
    /\ req'[r].credentials = <<>>
    /\ req'[r].response = "none"
    /\ req'[r].location = ""
    /\ yarFlash' = yarFlash

\* C1: an evaluation that finds no `auth` record on a route in mode `required`
\* records the request path as pending redirect, answers with a redirect to
\* /auth/login that takes over from the route handler, and produces no
\* credentials; a request so redirected never reaches its handler.
C1_NoSessionRequiredRedirects ==
    /\ [][\A r \in Req :
            (Starts(r) /\ "auth" \notin DOMAIN yarStore /\ req'[r].mode = "required")
                => DeniedToLogin(r)]_vars
    /\ [](\A r \in Req :
            (req[r].op = "authenticate" /\ req[r].outcome = "redirect")
                => (~req[r].handler /\ req[r].credentials = <<>> /\ req[r].pc = "done"))

C1_Witness ==
    \E r \in Req :
        /\ req[r].op = "authenticate" /\ req[r].pc = "done"
        /\ req[r].seen = <<>> /\ req[r].mode = "required"
        /\ req[r].response = "redirect" /\ req[r].location = "/auth/login"
        /\ req[r].path \in Messages(yarFlash)

\* C2: an evaluation that finds no `auth` record on a route in mode `try` or
\* `optional` lets the request proceed with empty credentials: no redirect,
\* and the request is answered only by its route handler.
C2_NoSessionTryProceeds ==
    /\ [][\A r \in Req :
            (Starts(r) /\ "auth" \notin DOMAIN yarStore
                       /\ req'[r].mode \in {"try", "optional"})
                => ProceedsAnonymous(r)]_vars
    /\ [](\A r \in Req :
            (req[r].op = "authenticate" /\ req[r].seen = <<>>
                /\ req[r].mode \in {"try", "optional"} /\ req[r].pc = "done")
                => (req[r].handler /\ req[r].outcome = "authenticated"))

C2_Witness ==
    \E r \in Req :
        /\ req[r].op = "authenticate" /\ req[r].pc = "done"
        /\ req[r].seen = <<>> /\ req[r].mode = "optional"
        /\ req[r].handler /\ req[r].credentials = <<>> /\ req[r].response = "ok"

\* C3: an evaluation that finds a record whose expiresAt is strictly more than
\* one minute after the current time authenticates with the stored record as
\* credentials and leaves the store alone, and the Token Refresh Client is not
\* invoked at any point of that request.
C3_ValidSessionNoRefresh ==
    /\ [][\A r \in Req :
            (Starts(r) /\ "auth" \in DOMAIN yarStore
                       /\ ParseISO(yarStore["auth"].expiresAt) > now + MsPerMinute)
                => /\ req'[r].pc = "authed"
                   /\ req'[r].outcome = "authenticated"
                   /\ req'[r].credentials = yarStore["auth"]
                   /\ req'[r].calls = <<>>
                   /\ yarStore' = yarStore /\ yarFlash' = yarFlash]_vars
    /\ [][\A r \in Req :
            (req[r].pc # "idle" /\ req'[r].pc # "idle") => req'[r].calls = req[r].calls]_vars

C3_Witness ==
    \E r \in Req :
        /\ req[r].op = "authenticate" /\ req[r].pc = "done"
        /\ req[r].seen # <<>>
        /\ ParseISO(req[r].seen[1].expiresAt) > now + MsPerMinute
        /\ req[r].outcome = "authenticated" /\ req[r].credentials = req[r].seen[1]
        /\ req[r].calls = <<>>

\* The record the evaluation starting in this step reads under `auth` has
\* passed its expiry less the one-minute buffer, or reaches it exactly now
ExpiredOrAtBuffer == ParseISO(yarStore["auth"].expiresAt) <= now + MsPerMinute

\* The same, the exact instant left out
ExpiredPastBuffer == ParseISO(yarStore["auth"].expiresAt) < now + MsPerMinute

\* The evaluation starting in slot r goes to the Token Refresh Client, once,
\* with the refresh token of the record
InvokesRefreshOnce(r) ==
    /\ req'[r].pc = "refresh"
    /\ req'[r].calls = <<yarStore["auth"].refreshToken>>

\* The calls of a request in flight are those it made when it started
NoFurtherRefreshCall ==
    \A r \in Req :
        (req[r].pc # "idle" /\ req'[r].pc # "idle") => req'[r].calls = req[r].calls

C4_BoundaryWitness ==
    \E r \in Req :
        /\ req[r].op = "authenticate" /\ req[r].pc = "done"
        /\ req[r].seen # <<>>
        /\ ParseISO(req[r].seen[1].expiresAt) = now + MsPerMinute
        /\ ~Falsy(req[r].seen[1].refreshToken)
        /\ req[r].calls = <<>>

\* The refresh call of slot r has returned a token response the new expiry
\* can be computed from
RefreshSucceeded(r) ==
    /\ req'[r].result # <<>>
    /\ req'[r].result[1].ok
    /\ "expires_in" \in DOMAIN req'[r].result[1].body

TokenFields == {"accessToken", "refreshToken", "expiresAt"}

\* C5: when the refresh of an expired session succeeds, the record persisted
\* under `auth` has the fields of the record the evaluation read, all equal
\* but accessToken, refreshToken and expiresAt, which come from the refresh
\* response, and the request is authenticated with exactly the persisted
\* record as credentials.
C5_RefreshReplacesTokensOnly ==
    [][\A r \in Req :
          (RefreshEnds(r) /\ RefreshSucceeded(r))
              => /\ "auth" \in DOMAIN yarStore'
                 /\ LET old == req[r].seen[1]
                        new == yarStore'["auth"]
                        body == req'[r].result[1].body
                    IN  /\ DOMAIN new = DOMAIN old
                        /\ \A k \in DOMAIN old \ TokenFields : new[k] = old[k]
                        /\ new.accessToken = Get(body, "access_token")
                        /\ new.refreshToken = Get(body, "refresh_token")
                        /\ ParseISO(new.expiresAt) = now + body.expires_in * MsPerSecond
                        /\ req'[r].credentials = new
                        /\ req'[r].outcome = "authenticated"
                        /\ req'[r].pc = "authed"
                        /\ req'[r].ops = << <<"set", new>> >>]_vars

C5_Witness ==
    \E r \in Req :
        /\ req[r].op = "authenticate" /\ req[r].pc = "done"
        /\ req[r].result # <<>> /\ req[r].result[1].ok
        /\ "auth" \in DOMAIN yarStore
        /\ req[r].credentials = yarStore["auth"]
        /\ req[r].credentials.accessToken = "new-token"
        /\ req[r].credentials.refreshToken = "new-refresh"
        /\ req[r].credentials.accessToken # req[r].seen[1].accessToken
        /\ req[r].credentials.displayName = "Ann"

\* C6: when the refresh of an expired session fails (the token endpoint
\* rejects it, the call has no token, or the transport fails), the `auth`
\* record is cleared and the outcome is the one NoSession gives for the mode
\* of the route: in `required` the path joins the pending redirects and the
\* response redirects to /auth/login; in `try` and `optional` the request
\* proceeds with empty credentials.
C6_RefreshFailureClearsSession ==
    [][\A r \in Req :
          (RefreshEnds(r) /\ req'[r].result # <<>> /\ ~req'[r].result[1].ok)
              => /\ "auth" \notin DOMAIN yarStore'
                 /\ req'[r].mode = req[r].mode /\ req'[r].path = req[r].path
                 /\ req'[r].mode = "required" => DeniedToLogin(r)
                 /\ req'[r].mode \in {"try", "optional"} => ProceedsAnonymous(r)]_vars

C6_Witness ==
    \E r \in Req :
        /\ req[r].op = "authenticate" /\ req[r].pc = "done"
        /\ req[r].result # <<>> /\ ~req[r].result[1].ok
        /\ req[r].mode = "required"
        /\ "auth" \notin DOMAIN yarStore
        /\ req[r].response = "redirect" /\ req[r].location = "/auth/login"
        /\ req[r].path \in Messages(yarFlash)

\* C7 (as stated, for the records strictly past the buffer): a record whose
\* expiresAt is before now + 1 minute and that has no refresh token is
\* cleared, the NoSession outcome of the mode is applied, and the request is
\* not authenticated with the expired record.
C7_ExpiredWithoutRefreshTokenCleared ==
    [][\A r \in Req :
          (Starts(r) /\ "auth" \in DOMAIN yarStore
                     /\ ExpiredPastBuffer
                     /\ Falsy(yarStore["auth"].refreshToken))
              => /\ "auth" \notin DOMAIN yarStore'
                 /\ req'[r].credentials # yarStore["auth"]
                 /\ req'[r].mode = "required" => DeniedToLogin(r)
                 /\ req'[r].mode \in {"try", "optional"} => ProceedsAnonymous(r)]_vars

\* C8 (as stated): at every point, the session has an `auth` record exactly
\* when a callback has succeeded and, since the latest one, neither a logout
\* nor a failed refresh has cleared the record.
C8_RecordIffLiveCallback == ("auth" \in DOMAIN yarStore) <=> live

\* The evaluation in slot r ends in the redirect to /auth/login or goes on
\* with empty credentials
RecoveredLocally(r) ==
    /\ req'[r].response # "error"
    /\ \/ req'[r].outcome = "redirect" /\ req'[r].location = "/auth/login"
       \/ req'[r].outcome = "authenticated" /\ req'[r].credentials = <<>>

\* C9 (as stated): every failure inside a strategy evaluation, a failed
\* refresh or an expired record with no refresh token, ends the evaluation in
\* a redirect to /auth/login or in an anonymous proceed, never in an error.
C9_FailuresRecoveredLocally ==
    [][\A r \in Req :
          \/ RefreshEnds(r) /\ req'[r].result # <<>> /\ ~req'[r].result[1].ok
          \/ Starts(r) /\ "auth" \in DOMAIN yarStore /\ ExpiredPastBuffer
                       /\ Falsy(yarStore["auth"].refreshToken)
          => RecoveredLocally(r)]_vars

\* The callback of slot r has succeeded and is about to be answered
CallbackSucceeded(r) ==
    req[r].op = "callback" /\ req[r].pc = "done" /\ req[r].response = "redirect"

\* The writes to the session store among the store calls of a request
Writes(ops) == SelectSeq(ops, LAMBDA op : op[1] = "set")

\* The record a successful callback leaves under `auth`, but for displayName:
\* one write, the identity from the decoded claims, the tokens and the expiry
\* from the credentials, the lists empty when the claims lack them
CallbackRecordFields(r) ==
    /\ Len(Writes(req[r].ops)) = 1
    /\ "auth" \in DOMAIN yarStore
    /\ Writes(req[r].ops)[1] = <<"set", yarStore["auth"]>>
    /\ LET claims == DecodePayload(req[r].credentials.token)[1]
           credentials == req[r].credentials
           record == yarStore["auth"]
       IN  /\ DOMAIN record = {"contactId", "email", "displayName", "accessToken",
                               "refreshToken", "expiresAt", "relationships",
                               "roles", "aal", "loa"}
           /\ record.contactId = Get(claims, "contactId")
           /\ record.email = Get(claims, "email")
           /\ record.accessToken = credentials.token
           /\ record.refreshToken = Get(credentials, "refreshToken")
           /\ ParseISO(record.expiresAt) = now + credentials.expiresIn * MsPerSecond
           /\ record.aal = Get(claims, "aal")
           /\ record.loa = Get(claims, "loa")
           /\ "relationships" \in DOMAIN claims => record.relationships = claims.relationships
           /\ "relationships" \notin DOMAIN claims => record.relationships = <<>>
           /\ "roles" \in DOMAIN claims => record.roles = claims.roles
           /\ "roles" \notin DOMAIN claims => record.roles = <<>>

\* C10 (as stated): a successful callback persists the record with one write,
\* and displayName is the given_name claim whenever that claim exists, the
\* email otherwise.
C10_Original_DisplayNameWheneverClaimExists ==
    \A r \in Req :
        CallbackSucceeded(r)
            => /\ CallbackRecordFields(r)
               /\ LET claims == DecodePayload(req[r].credentials.token)[1]
                  IN  yarStore["auth"].displayName =
                          IF "given_name" \in DOMAIN claims
                          THEN claims.given_name
                          ELSE Get(claims, "email")

\* C10 (amended): a successful callback persists the record with one write,
\* and displayName is the given_name claim whenever that claim exists and is
\* not the empty string, the email otherwise.
C10_CallbackRecord ==
    \A r \in Req :
        CallbackSucceeded(r)
            => /\ CallbackRecordFields(r)
               /\ LET claims == DecodePayload(req[r].credentials.token)[1]
                  IN  yarStore["auth"].displayName =
                          IF "given_name" \in DOMAIN claims /\ claims.given_name # ""
                          THEN claims.given_name
                          ELSE Get(claims, "email")

C10_Witness ==
    \E r \in Req :
        /\ CallbackSucceeded(r)
        /\ req[r].credentials.token = "id-empty-name"
        /\ yarStore["auth"].displayName = "ann@example.com"
        /\ yarStore["auth"].relationships = <<>>

\* The request of slot r writes a session record in this step
WritesRecord(r) == Writes(req[r].ops) = <<>> /\ Writes(req'[r].ops) # <<>>

\* The lifetime, in seconds, in the token response the writer of slot r got:
\* Bell's credentials for the callback, the refresh response for the scheme
ExpiresInSeconds(r) ==
    IF req'[r].op = "callback"
    THEN req'[r].credentials.expiresIn
    ELSE req'[r].result[1].body.expires_in

\* C11: whenever a session record is written, by the callback or by a
\* successful refresh, its expiresAt is the time of the write plus expires_in
\* seconds of the token response, to the millisecond; a record comes into the
\* store by such a write only, so expiresAt has no other origin.
C11_ExpiresAtDerived ==
    /\ [][\A r \in Req :
            WritesRecord(r)
                => /\ "auth" \in DOMAIN yarStore'
                   /\ Writes(req'[r].ops) = << <<"set", yarStore'["auth"]>> >>
                   /\ ParseISO(yarStore'["auth"].expiresAt)
                          = now + ExpiresInSeconds(r) * MsPerSecond]_vars
    /\ [][("auth" \in DOMAIN yarStore' /\ yarStore' # yarStore)
              => \E r \in Req : WritesRecord(r)]_vars

C11_Witness ==
    \E r \in Req :
        /\ req[r].op = "authenticate" /\ req[r].pc = "done"
        /\ req[r].result # <<>> /\ req[r].result[1].ok
        /\ now % MsPerSecond # 0
        /\ "auth" \in DOMAIN yarStore
        /\ ParseISO(yarStore["auth"].expiresAt)
               = now + req[r].result[1].body.expires_in * MsPerSecond
        /\ yarStore["auth"].expiresAt # req[r].seen[1].expiresAt

\* A callback starts and ends in this step, in slot r
CallbackRuns(r) == req[r].pc = "idle" /\ req'[r].op = "callback"

\* The ID token of the callback cannot be decoded, or lacks the contactId claim
IdentityUnusable(r) ==
    LET decoded == DecodePayload(req'[r].credentials.token)
    IN  decoded = <<>> \/ "contactId" \notin DOMAIN decoded[1]

\* C12 (as stated): a callback whose ID token cannot be decoded, or lacks a
\* required identity claim such as contactId, ends in an error that leaves the
\* handler, and persists no session record.
C12_UnusableIdentityPersistsNothing ==
    [][\A r \in Req :
          (CallbackRuns(r) /\ IdentityUnusable(r))
              => /\ req'[r].response = "error"
                 /\ Writes(req'[r].ops) = <<>>
                 /\ yarStore' = yarStore]_vars

\* A callback succeeds in this step, in slot r
CallbackSucceeds(r) == CallbackRuns(r) /\ req'[r].response = "redirect"

\* A strategy evaluation denies its request in this step, in slot r
Denies(r) ==
    /\ req[r].pc # "done" /\ req'[r].pc = "done"
    /\ req'[r].op = "authenticate" /\ req'[r].mode = "required"
    /\ req'[r].outcome = "redirect"

LogoutRedirectsNow(r) ==
    /\ req[r].pc # "done" /\ req'[r].pc = "done"
    /\ req'[r].op = "authenticate" /\ req'[r].path = "/auth/logout"
    /\ req'[r].response = "redirect"

\* What a percent-encoded piece stands for
PercentDecoded(piece) ==
    CASE piece = "%3A%2F%2F" -> "://"
      [] piece = "%3A" -> ":"
      [] piece = "%2F" -> "/"
      [] OTHER -> piece

\* The URI of this server for the configuration: scheme, host, and the port
\* when the logout handler names it
ServerUri(cfg) ==
    <<IF cfg.isProduction THEN "https" ELSE "http", "://", cfg.host>>
        \o (IF cfg.port \in {80, 443} THEN <<>> ELSE <<":", ToString(cfg.port)>>)

\* The pieces spell <end_session_endpoint>?post_logout_redirect_uri=<percent-
\* encoded URI of this server>: no reserved character is left in the value
IsProviderLogoutUrl(url) ==
    /\ Len(url) > 2
    /\ url[1] = DiscoveryDocument.end_session_endpoint
    /\ url[2] = "?post_logout_redirect_uri="
    /\ LET value == SubSeq(url, 3, Len(url))
       IN  /\ \A i \in 1..Len(value) : value[i] \notin {"://", ":", "/"}
           /\ [i \in 1..Len(value) |-> PercentDecoded(value[i])] = ServerUri(config)

\* C14: logout is unconditional and idempotent. Whatever the session held when
\* the request came in (a valid record, an expired record, no record), a logout
\* request that resolves the discovery endpoints leaves no `auth` record and
\* redirects to <end_session_endpoint>?post_logout_redirect_uri=<percent-encoded
\* URI>; the redirect depends on the configuration and the discovery document
\* only, so a repeated logout gives the same state and the same redirect.
C14_LogoutUnconditional ==
    [][\A r \in Req :
          LogoutRedirectsNow(r)
              => /\ "auth" \notin DOMAIN yarStore'
                 /\ IsProviderLogoutUrl(req'[r].location)]_vars

C14_Witness ==
    \E r \in Req :
        /\ req[r].op = "authenticate" /\ req[r].path = "/auth/logout"
        /\ req[r].pc = "done" /\ req[r].response = "redirect"
        /\ req[r].seen = <<>>
        /\ loggedOut
        /\ "auth" \notin DOMAIN yarStore
        /\ IsProviderLogoutUrl(req[r].location)
        /\ "%3A" \in Messages(req[r].location)

\* C15 (as stated): once a logout request has completed, and until a callback
\* succeeds, the next request to a route in mode `required` is answered with
\* the redirect to /auth/login.
C15_AfterLogoutRequiredDenied ==
    [][\A r \in Req :
          (Starts(r) /\ req'[r].mode = "required" /\ loggedOut)
              => DeniedToLogin(r)]_vars

\* A getOidcEndpoints call made on its own starts in this step, in slot r
EndpointsCallStarts(r) == req[r].pc = "idle" /\ req'[r].op = "getOidcEndpoints"

\* The call of slot r has returned this object
Returned(r, endpoints) ==
    /\ req'[r].pc = "done"
    /\ req'[r].result = <<[ok |-> TRUE, endpoints |-> endpoints]>>

\* C16 (as stated): once a getOidcEndpoints call has returned successfully,
\* every call that starts afterwards returns the identical object, the one
\* that first call returned, and fetches nothing.
C16_CachedObjectReturned ==
    [][\A r \in Req :
          (EndpointsCallStarts(r) /\ resolved # <<>>)
              => /\ Returned(r, resolved[1])
                 /\ req'[r].net = <<>>]_vars

\* C17 (as stated): the cached discovery document is assigned at most once,
\* under any interleaving of getOidcEndpoints calls, and all callers receive
\* the same object.
C17_CacheAssignedOnce ==
    /\ [][cachedOidcEndpoints # <<>>
              => cachedOidcEndpoints' = cachedOidcEndpoints]_vars
    /\ [](\A r \in Req :
            (req[r].op = "getOidcEndpoints" /\ req[r].pc = "done" /\ req[r].result[1].ok)
                => req[r].result[1].endpoints = resolved[1])

\* The pieces of an error message, as a set
Pieces(message) == {message[i] : i \in 1..Len(message)}

\* A call that awaited the fetch of the discovery document has ended, in slot r
DiscoveryCallEnded(r) ==
    /\ req[r].pc = "done" /\ req[r].got # <<>>
    /\ req[r].net # <<>> /\ req[r].net[Len(req[r].net)] = "discovery"

\* C18: a discovery call fails with an error that carries the HTTP status code
\* and the reason phrase when the response is non-2xx, and with an error that
\* carries the message of the underlying cause when the fetch itself fails; in
\* neither case does the caller get an endpoint set, and none is cached.
C18_DiscoveryErrors ==
    /\ [](\A r \in Req :
            (DiscoveryCallEnded(r) /\ req[r].got[1].kind # "ok")
                => /\ ~req[r].result[1].ok
                   /\ "endpoints" \notin DOMAIN req[r].result[1]
                   /\ req[r].got[1].kind = "http"
                          => {req[r].got[1].status, req[r].got[1].statusText}
                                 \subseteq Pieces(req[r].result[1].error)
                   /\ req[r].got[1].kind = "throw"
                          => req[r].got[1].message \in Pieces(req[r].result[1].error))
    /\ [][\A r \in Req :
            (req[r].awaits = "discovery" /\ req'[r].got # <<>>
                                         /\ req'[r].got[1].kind # "ok")
                => cachedOidcEndpoints' = cachedOidcEndpoints]_vars

C18_Witness ==
    \E r \in Req :
        /\ req[r].op = "getOidcEndpoints" /\ DiscoveryCallEnded(r)
        /\ req[r].got[1].kind = "http"
        /\ req[r].result[1].error
               = <<"Failed to fetch OIDC configuration: ", "OIDC discovery failed: ",
                   "503", " ", "Service Unavailable">>

\* A refreshAccessToken call made on its own starts in this step, in slot r
RefreshCallStarts(r) == req[r].pc = "idle" /\ req'[r].op = "refreshAccessToken"

\* C19: refreshAccessToken called with an empty or absent refresh token fails
\* in the step of the call, and no fetch is issued: neither the one of the
\* discovery document nor the POST to the token endpoint.
C19_NoTokenNoNetwork ==
    [][\A r \in Req :
          (RefreshCallStarts(r) /\ req'[r].calls[1] \in {"", "undefined"})
              => /\ req'[r].pc = "done"
                 /\ req'[r].response = "error"
                 /\ ~req'[r].result[1].ok
                 /\ req'[r].net = <<>>
                 /\ cachedOidcEndpoints' = cachedOidcEndpoints]_vars

C19_Witness ==
    \E r \in Req :
        /\ req[r].op = "refreshAccessToken" /\ req[r].pc = "done"
        /\ req[r].calls = <<"">>
        /\ req[r].result = <<[ok |-> FALSE, error |-> <<"No refresh token provided">>]>>
        /\ req[r].net = <<>>
        /\ cachedOidcEndpoints = <<>>

\* A refreshAccessToken call that awaited its POST has ended, in slot r
PostCallEnded(r) ==
    /\ req[r].op = "refreshAccessToken" /\ req[r].pc = "done"
    /\ req[r].net # <<>> /\ req[r].net[Len(req[r].net)] = "token"

\* C20: for a refresh token that is there, refreshAccessToken returns the body
\* of a 2xx response of the token endpoint, fails with an error that carries
\* status, status text and body text of a non-2xx response, and fails with the
\* error of the transport itself when the POST is rejected.
C20_RefreshClientResults ==
    \A r \in Req :
        PostCallEnded(r)
            => LET response == req[r].got[1]
                   result == req[r].result[1]
               IN  /\ ~Falsy(req[r].calls[1])
                   /\ response.kind = "ok"
                          => (result.ok /\ result.body = response.body)
                   /\ response.kind = "http"
                          => /\ ~result.ok
                             /\ {response.status, response.statusText, response.text}
                                    \subseteq Pieces(result.error)
                             /\ result.error[1] = "Token refresh failed: "
                   /\ response.kind = "throw"
                          => (~result.ok /\ result.error = <<response.message>>)

C20_Witness ==
    \E r \in Req :
        /\ PostCallEnded(r)
        /\ req[r].got[1].kind = "http"
        /\ req[r].result[1].error
               = <<"Token refresh failed: ", "400", " ", "Bad Request", " - ",
                   "invalid_grant">>

\* A refreshAccessToken call starts in this step, in slot r: inside the scheme
\* or on its own, with a refresh token that is there
AttemptStarts(r) ==
    req[r].pc = "idle" /\ req'[r].pc = "refresh"

\* The refreshAccessToken call of slot r ends in this step
AttemptEnds(r) == req[r].pc = "refresh" /\ req'[r].pc # "refresh"

\* How many POSTs to the token endpoint a list of fetches holds
RECURSIVE Posts(_)
Posts(net) ==
    IF net = <<>> THEN 0
    ELSE (IF net[1] = "token" THEN 1 ELSE 0) + Posts(Tail(net))

\* C21: one refreshAccessToken call is one attempt. It resolves the token
\* endpoint through the discovery cache first (no fetch of the document when
\* the cache is filled, one when it is empty), then issues at most one POST; a
\* failed POST or a failed resolution ends the call in the step of the failure,
\* with no further fetch, and a failed resolution means no POST at all.
C21_SingleAttempt ==
    [][\A r \in Req :
          /\ AttemptStarts(r)
                 => req'[r].net = IF cachedOidcEndpoints # <<>>
                                  THEN <<"token">> ELSE <<"discovery">>
          /\ (req[r].pc = "refresh" /\ req'[r].pc = "refresh" /\ req'[r] # req[r])
                 => /\ req[r].net = <<"discovery">> /\ req'[r].got[1].kind = "ok"
                    /\ req'[r].net = <<"discovery", "token">>
          /\ AttemptEnds(r)
                 => /\ req'[r].net = req[r].net
                    /\ Posts(req[r].net) <= 1
                    /\ req'[r].got[1].kind # "ok"
                           => ~req'[r].result[1].ok
                    /\ req[r].awaits = "discovery"
                           => (Posts(req[r].net) = 0 /\ ~req'[r].result[1].ok)]_vars

C21_Witness ==
    \E r \in Req :
        /\ req[r].calls # <<>> /\ req[r].pc = "done"
        /\ req[r].net = <<"discovery", "token">>
        /\ req[r].got[1].kind = "http"
        /\ ~req[r].result[1].ok

\* The fetch of the discovery document awaited in slot r fails in this step
DiscoveryFailsIn(r) ==
    /\ req[r].awaits = "discovery" /\ req'[r].awaits = "none"
    /\ req'[r].got # <<>> /\ req'[r].got[1].kind # "ok"

\* A request or call that awaited the fetch of the discovery document last,
\* and saw it fail, is past that failure
DiscoveryFailed(r) ==
    /\ req[r].pc \in {"done", "authed"}
    /\ req[r].net # <<>> /\ req[r].net[Len(req[r].net)] = "discovery"
    /\ req[r].got # <<>> /\ req[r].got[1].kind # "ok"

LoginDone(r) == req[r].op = "login" /\ req[r].pc = "done"

\* The outbound parameters of slot r carry login_hint
HintForwarded(r) == "login_hint" \in DOMAIN req[r].params[1]

\* The request of slot r came with a login_hint
HintPresent(r) == "login_hint" \in DOMAIN req[r].query[1]

\* A text has no whitespace at either end
Trimmed(text) ==
    text = <<>> \/ (text[1].of \notin Whitespace /\ text[Len(text)].of \notin Whitespace)

\* C23 (as stated): login_hint is forwarded exactly when it is present, is a
\* string, is non-empty after trimming and has at most 255 characters after
\* trimming; the forwarded value is the trimmed one.
C23_Original_HintForwardedIffString ==
    \A r \in Req :
        LoginDone(r)
            => /\ HintForwarded(r)
                      <=> /\ HintPresent(r)
                          /\ req[r].query[1].login_hint.kind = "string"
                          /\ Trim(req[r].query[1].login_hint.text) # <<>>
                          /\ TextLength(Trim(req[r].query[1].login_hint.text))
                                 <= MaxLoginHintLength
               /\ HintForwarded(r)
                      => req[r].params[1].login_hint
                             = Trim(req[r].query[1].login_hint.text)

\* C23 (amended): login_hint is forwarded exactly when it is present and
\* truthy and its conversion to a string is non-empty after trimming and has at
\* most 255 characters after trimming, whether the value is a string or not;
\* the forwarded value is that trimmed string: no whitespace at its ends, the
\* same length as what is left of the string without its outer whitespace.
C23_HintForwardedIffUsable ==
    \A r \in Req :
        LoginDone(r)
            => LET query == req[r].query[1]
                   params == req[r].params[1]
               IN  /\ HintForwarded(r)
                          <=> /\ HintPresent(r)
                              /\ Truthy(query.login_hint)
                              /\ Trim(ToStringValue(query.login_hint)) # <<>>
                              /\ TextLength(Trim(ToStringValue(query.login_hint)))
                                     <= MaxLoginHintLength
                   /\ HintForwarded(r)
                          => /\ Trimmed(params.login_hint)
                             /\ TextLength(params.login_hint) \in 1..MaxLoginHintLength
                             /\ \E i, j \in 1..Len(ToStringValue(query.login_hint)) :
                                    params.login_hint
                                        = SubSeq(ToStringValue(query.login_hint), i, j)
                   /\ ~HintForwarded(r) => DOMAIN params = {"serviceId"}

C23_Witness ==
    \E r \in Req :
        /\ LoginDone(r) /\ HintPresent(r) /\ HintForwarded(r)
        /\ req[r].query[1].login_hint
               = StringValue(<< Run(" ", 1), Run("a", MaxLoginHintLength), Run("\t", 1) >>)
        /\ req[r].params[1].login_hint = << Run("a", MaxLoginHintLength) >>

\* C24: every login initiation carries the serviceId provider parameter, with
\* the value the configuration holds, whatever the query of the request is.
C24_ServiceIdAlwaysSent ==
    \A r \in Req :
        LoginDone(r)
            => /\ "serviceId" \in DOMAIN req[r].params[1]
               /\ req[r].params[1].serviceId = server.defraId.serviceId
               /\ req[r].params[1].serviceId \in {"service-1", "service-2"}

C24_Witness ==
    \E r \in Req :
        /\ LoginDone(r) /\ HintPresent(r) /\ HintForwarded(r)
        /\ server.defraId.serviceId = "service-2"
        /\ req[r].params[1].serviceId = "service-2"

\* The positions of the registration log that hold an entry of a kind
Entries(kind) ==
    { i \in 1..Len(server.registered) : server.registered[i].kind = kind }

\* A strategy is in the registration log
StrategyRegistered(name) ==
    \E i \in Entries("strategy") : server.registered[i].name = name

\* The routes that declare a strategy
ProtectedPaths == {"/auth/login", "/auth/callback", "/auth/logout", "/dashboard"}

\* C25: in createServer both strategies, defra-id and session-cookie, are
\* registered before the router registers any route; a route that declares a
\* strategy is one of /auth/login, /auth/callback, /auth/logout and /dashboard,
\* is registered after the strategy it declares, and is registered only in a
\* server where both strategies were registered.
C25_StrategiesBeforeRoutes ==
    /\ \A i \in Entries("strategy"), j \in Entries("route") : i < j
    /\ \A j \in Entries("route") :
           /\ server.registered[j].strategy # "none"
                  <=> server.registered[j].name \in ProtectedPaths
           /\ server.registered[j].name \in ProtectedPaths
                  => /\ StrategyRegistered("defra-id")
                     /\ StrategyRegistered("session-cookie")
                     /\ \E i \in Entries("strategy") :
                            /\ i < j
                            /\ server.registered[i].name = server.registered[j].strategy
    /\ server.pc # "started" => server.registered = <<>>

C25_Witness ==
    /\ scenario = "startup" /\ server.pc = "started"
    /\ server.registered[1] = Strategy("defra-id")
    /\ server.registered[2] = Strategy("session-cookie")
    /\ ProtectedPaths
           \subseteq { server.registered[j].name : j \in Entries("route") }

\* A route is in the registration log with this strategy and mode
Registered(path, strategy, mode) ==
    \E j \in Entries("route") : server.registered[j] = Route(path, strategy, mode)

\* How often a path is in the registration log
Registrations(path) ==
    Cardinality({ j \in Entries("route") : server.registered[j].name = path })

\* C26: where the protected routes are registered, /auth/login and
\* /auth/callback declare the provider strategy in mode required, /auth/logout
\* the session strategy in mode try and /dashboard the session strategy in
\* mode required, each once. So every request to /auth/logout that is answered
\* has reached the logout handler, with or without a session and after a failed
\* refresh too, while /dashboard reaches its handler only with credentials.
C26_RouteModes ==
    /\ \A path \in ProtectedPaths : Registrations(path) \in {0, 1}
    /\ Registrations("/auth/login") = 1
           => /\ Registered("/auth/login", "defra-id", "required")
              /\ Registered("/auth/callback", "defra-id", "required")
              /\ Registered("/auth/logout", "session-cookie", "try")
              /\ Registered("/dashboard", "session-cookie", "required")
    /\ \A r \in Req :
           /\ (req[r].op = "authenticate" /\ req[r].path = LogoutPath
                   /\ req[r].pc = "done")
                  => (req[r].handler /\ req[r].mode = "try")
           /\ (req[r].op = "authenticate" /\ req[r].path = "/dashboard")
                  => /\ req[r].mode = "required"
                     /\ req[r].handler => req[r].credentials # <<>>

C26_Witness ==
    \E r \in Req :
        /\ req[r].op = "authenticate" /\ req[r].path = LogoutPath
        /\ req[r].pc = "done" /\ req[r].handler
        /\ req[r].net = <<"token">> /\ req[r].got[1].kind = "http"
        /\ req[r].credentials = <<>>
        /\ req[r].response = "redirect"

\* Slot q is suspended in the refresh call of a strategy evaluation
Refreshing(q) == req[q].op = "authenticate" /\ req[q].pc = "refresh"

\* C27: token refresh is not deduplicated. An evaluation that starts while
\* another one of the same session is suspended in its refresh, and that reads
\* the record the other one read, finds it expired as well and invokes
\* refreshAccessToken too, with the same refresh token; it does not wait for
\* the refresh in flight, which goes on.
C27_RefreshNotDeduplicated ==
    [][\A r, q \in Req :
          (/\ r # q /\ Starts(r) /\ Refreshing(q)
           /\ YarGet(yarStore, "auth") = req[q].seen)
              => /\ Refreshing(q)'
                 /\ req'[r].pc = "refresh"
                 /\ req'[r].calls = req[q].calls
                 /\ req'[r].seen = req[q].seen
                 /\ req'[r].net # <<>>]_vars

C27_Witness ==
    \E r, q \in Req :
        /\ r # q /\ Refreshing(r) /\ Refreshing(q)
        /\ req[r].calls = req[q].calls /\ req[r].calls = <<"old-refresh">>
        /\ req[r].awaits = "post" /\ req[q].awaits = "post"

\* The default port of the scheme the logout handler puts into the URI
SchemeDefaultPort(cfg) == IF cfg.isProduction THEN 443 ELSE 80

\* The logout request of slot r has been answered with the redirect
LogoutRedirected(r) ==
    /\ req[r].op = "authenticate" /\ req[r].path = LogoutPath
    /\ req[r].pc = "done" /\ req[r].response = "redirect"

\* C28 (as stated): the post-logout redirect URI has no port segment exactly
\* when the configured port is the default port of the scheme in use, 80 for
\* http and 443 for https, and has :<port> in every other case.
C28_PortOmittedIffSchemeDefault ==
    \A r \in Req :
        LogoutRedirected(r)
            => (ToString(config.port) \notin Messages(req[r].location)
                    <=> config.port = SchemeDefaultPort(config))

\* The strategy lets the request of slot r proceed in this step, with a
\* credentials record
ProceedsWithCredentials(r) ==
    /\ req[r].pc # "authed" /\ req'[r].pc = "authed"
    /\ req'[r].credentials # <<>>

\* C30 (as stated): whenever the strategy lets a request proceed with non-empty
\* credentials, the expiresAt of that record is later than now plus one minute
\* at the moment of the decision, for every record and every refresh response.
C30_CredentialsOutliveBuffer ==
    [][\A r \in Req :
          ProceedsWithCredentials(r)
              => ParseISO(req'[r].credentials.expiresAt) > now + MsPerMinute]_vars

\* Slot r is suspended in a refresh or discovery call
Suspended(r) == req[r].pc \in {"refresh", "endpoints"}

\* The strategy evaluation of slot q has ended in one of its outcomes, or the
\* call made on its own in slot q has ended
Terminal(q) ==
    \/ req[q].op = "authenticate" /\ req[q].outcome \in {"authenticated", "redirect"}
    \/ req[q].op \in {"getOidcEndpoints", "refreshAccessToken"} /\ req[q].pc = "done"

\* C29: a refresh or discovery call that never returns blocks only the request
\* that triggered it. While the hung slot is suspended in its call, and for as
\* long as it stays so, other requests are taken up and one of them runs its
\* strategy evaluation to a terminal outcome (of calls made on their own: one
\* of them ends), with no step of the hung slot needed.
C29_HungCallBlocksOnlyItsRequest ==
    (scenario \in {"interleavings", "callers"} /\ Suspended(HungSlot))
        ~> (~Suspended(HungSlot) \/ \E q \in Req \ {HungSlot} : Terminal(q))

C29_Witness ==
    \E q \in Req \ {HungSlot} :
        /\ req[HungSlot].op = "authenticate" /\ req[HungSlot].pc = "refresh"
        /\ req[HungSlot].awaits = "post"
        /\ req[q].op = "authenticate" /\ req[q].pc = "done"
        /\ req[q].net = <<"token">> /\ req[q].handler
        /\ req[q].credentials # <<>>

\* C31 (as stated): once a logout request has cleared the session record and
\* completed, a strategy evaluation that was suspended in its refresh call
\* since before the logout writes no `auth` record back when its call returns:
\* the session stays without a record.
C31_NoWriteBackAfterLogout ==
    [][\A r \in Req :
          (RefreshEnds(r) /\ loggedOut /\ "auth" \notin DOMAIN yarStore)
              => "auth" \notin DOMAIN yarStore']_vars

\* The instants of the model's clock
Instants == { k * ClockStep : k \in 0..MaxTicks }

\* The store holds what a successful refresh of this record wrote
HoldsRefreshOf(sessionData) ==
    /\ "auth" \in DOMAIN yarStore
    /\ \E newTokens \in { response.body : response \in
                              { p \in PostResponses : p.kind = "ok" } },
          t \in Instants :
           /\ ExpiryComputable(newTokens, "expires_in")
           /\ yarStore["auth"] = UpdatedSession(sessionData, newTokens, t)

\* C32 (as stated): when two requests refresh the same expired record
\* concurrently and exactly one of the two calls succeeds, the record of the
\* successful refresh is what remains, in every interleaving: a refresh that
\* fails after the other one has written its record leaves that record alone.
C32_SuccessfulRefreshRemains ==
    [][\A r \in Req :
          (/\ RefreshEnds(r) /\ ~req'[r].result[1].ok
           /\ HoldsRefreshOf(req[r].seen[1]))
              => yarStore' = yarStore]_vars

\* The logout handler starts in slot r in this step
LogoutStarts(r) ==
    /\ req[r].pc = "authed" /\ req[r].path = LogoutPath
    /\ req'[r].handler

\* C33: the logout handler clears the `auth` record before it resolves the
\* discovery endpoints: the record is gone in the step in which the handler
\* starts, whether the endpoints are cached or have to be fetched, and a logout
\* that ends in a discovery error leaves the session without an `auth` record.
C33_LogoutClearsBeforeDiscovery ==
    [][\A r \in Req :
          /\ LogoutStarts(r)
                 => /\ "auth" \notin DOMAIN yarStore'
                    /\ req'[r].ops # <<>>
                    /\ req'[r].ops[Len(req'[r].ops)] = <<"clear">>
          /\ (req[r].pc = "endpoints" /\ req[r].op = "authenticate"
                  /\ DiscoveryFailsIn(r))
                 => /\ "auth" \notin DOMAIN yarStore'
                    /\ req'[r].response = "error"]_vars

C33_Witness ==
    \E r \in Req :
        /\ req[r].op = "authenticate" /\ req[r].path = LogoutPath
        /\ req[r].pc = "done" /\ req[r].response = "error"
        /\ req[r].seen # <<>>
        /\ req[r].got[1].kind = "throw"
        /\ "auth" \notin DOMAIN yarStore

\* A callback fails in this step, in slot r: the decode of the ID token throws
\* or the expiry timestamp cannot be computed
CallbackFails(r) == CallbackRuns(r) /\ req'[r].response = "error"

\* C34: a callback that fails before its session write leaves the session as
\* it was: it makes no store call, the `auth` record (there or not) and the
\* pending-redirect messages are unchanged, so that a successful callback that
\* follows still finds the messages and redirects to one of them.
C34_FailedCallbackChangesNothing ==
    [][\A r \in Req :
          /\ CallbackFails(r)
                 => /\ \/ DecodePayload(req'[r].credentials.token) = <<>>
                       \/ "expiresIn" \notin DOMAIN req'[r].credentials
                    /\ yarStore' = yarStore
                    /\ yarFlash' = yarFlash
                    /\ req'[r].ops = <<>>
          /\ (req[r].op = "callback" /\ req[r].response = "error"
                  /\ req[r].pc = "done")
                 => (yarStore' = yarStore /\ yarFlash' = yarFlash)
          /\ (CallbackSucceeds(r) /\ yarFlash # <<>>)
                 => req'[r].location \in Messages(yarFlash)]_vars

C34_Witness ==
    \E r \in Req :
        /\ req[r].op = "callback" /\ req[r].pc = "done" /\ req[r].response = "error"
        /\ req[r].credentials.token = "id-garbage"
        /\ yarFlash = <<"/dashboard">>

\* The evaluation starting in slot r finds a record it uses as it is
EndsValidSession(r) ==
    /\ Starts(r) /\ req'[r].seen # <<>>
    /\ req'[r].pc = "authed" /\ req'[r].calls = <<>>

\* The evaluation starting in slot r finds no record, in mode try or optional
EndsNoSessionAnonymous(r) ==
    /\ Starts(r) /\ req'[r].seen = <<>>
    /\ req'[r].mode \in {"try", "optional"}

\* C35: a strategy evaluation that ends in ValidSession, or in NoSession with
\* mode try or optional, leaves the session as it was: it makes no set and no
\* clear, writes no pending-redirect message, and ends in the step it starts in.
C35_ReadOnlyEvaluations ==
    [][\A r \in Req :
          (EndsValidSession(r) \/ EndsNoSessionAnonymous(r))
              => /\ yarStore' = yarStore
                 /\ yarFlash' = yarFlash
                 /\ req'[r].ops = <<>>
                 /\ req'[r].pc = "authed" /\ req'[r].net = <<>>
                 /\ req'[r].credentials
                        = IF req'[r].seen = <<>> THEN <<>> ELSE yarStore["auth"]]_vars

C35_Witness ==
    \E r \in Req :
        /\ req[r].op = "authenticate" /\ req[r].pc = "authed"
        /\ req[r].mode = "optional" /\ req[r].seen = <<>>
        /\ req[r].ops = <<>> /\ req[r].credentials = <<>>
        /\ yarFlash # <<>>

\* C36: a failed discovery call leaves the cache as it was, so failures are
\* never cached: a getOidcEndpoints call that finds the cache empty fetches the
\* document, whether or not an earlier fetch has failed, and when the fetch
\* gives the document the call returns the endpoints and leaves them cached.
C36_FailuresNotCached ==
    [][\A r \in Req :
          /\ DiscoveryFailsIn(r) => cachedOidcEndpoints' = cachedOidcEndpoints
          /\ (EndpointsCallStarts(r) /\ cachedOidcEndpoints = <<>>)
                 => /\ req'[r].pc = "endpoints" /\ req'[r].net = <<"discovery">>
                    /\ cachedOidcEndpoints' = <<>>
          /\ (req[r].op = "getOidcEndpoints" /\ req[r].pc = "endpoints"
                  /\ req'[r].pc = "done" /\ req'[r].got[1].kind = "ok")
                 => /\ req'[r].response = "ok"
                    /\ req'[r].result[1].ok
                    /\ cachedOidcEndpoints' = <<req'[r].result[1].endpoints>>]_vars

C36_Witness ==
    \E r \in Req :
        /\ req[r].afterFailure
        /\ req[r].op = "getOidcEndpoints" /\ req[r].pc = "done"
        /\ req[r].seen = <<>> /\ req[r].net = <<"discovery">>
        /\ req[r].response = "ok"
        /\ cachedOidcEndpoints = <<req[r].result[1].endpoints>>

\* What a denial does to the pending-redirect messages: its path joins them
DenialAddsPath(r) ==
    /\ Len(yarFlash') = Len(yarFlash) + 1
    /\ Messages(yarFlash') = Messages(yarFlash) \cup {req'[r].path}
    /\ denied' = Append(denied, req'[r].path)

Evaluated(r) == req[r].op = "authenticate" /\ req[r].outcome # "none"

\* The four outcomes of a strategy evaluation
WithStoredRecord(r) ==
    /\ req[r].outcome = "authenticated" /\ req[r].credentials # <<>>
    /\ req[r].calls = <<>> /\ req[r].credentials = req[r].seen[1]

WithRefreshedRecord(r) ==
    /\ req[r].outcome = "authenticated" /\ req[r].credentials # <<>>
    /\ req[r].calls # <<>> /\ req[r].net # <<>>
    /\ \E newTokens \in TokenResponses, t \in Instants :
           /\ ExpiryComputable(newTokens, "expires_in")
           /\ req[r].credentials = UpdatedSession(req[r].seen[1], newTokens, t)

WithEmptyCredentials(r) ==
    req[r].outcome = "authenticated" /\ req[r].credentials = <<>>

RedirectedToLogin(r) ==
    /\ req[r].outcome = "redirect" /\ req[r].location = LoginPath
    /\ req[r].credentials = <<>> /\ ~req[r].handler

\* How many of the four outcomes the evaluation of slot r is in
OutcomesOf(r) ==
    Cardinality({ i \in 1..4 :
                    \/ i = 1 /\ WithStoredRecord(r)
                    \/ i = 2 /\ WithRefreshedRecord(r)
                    \/ i = 3 /\ WithEmptyCredentials(r)
                    \/ i = 4 /\ RedirectedToLogin(r) })

\* C38: every strategy evaluation whose refresh call, if it makes one, returns
\* or fails comes to an end: at once when it makes no call, after the return of
\* the call otherwise (no slot stays suspended in a refresh for ever, and the
\* step that ends the suspension ends the evaluation). An evaluation that has
\* ended is in exactly one of four outcomes: authenticated with the stored
\* record, authenticated with a refreshed record, proceeding with empty
\* credentials, redirect to /auth/login.
C38_EvaluationTerminates ==
    /\ \A r \in Req : []<>(~Refreshing(r))
    /\ [][\A r \in Req :
            (Refreshing(r) /\ ~Refreshing(r)') => Evaluated(r)']_vars
    /\ [][\A r \in Req :
            Starts(r) => (req'[r].pc = "refresh" \/ Evaluated(r)')]_vars
    /\ [](\A r \in Req :
            /\ Evaluated(r) => OutcomesOf(r) = 1
            /\ (req[r].op = "authenticate" /\ ~Evaluated(r)) => Refreshing(r))

C38_Witness ==
    \E r \in Req :
        /\ Evaluated(r) /\ WithRefreshedRecord(r)
        /\ req[r].net = <<"discovery", "token">>
        /\ req[r].pc = "done" /\ req[r].handler

====
